---- MODULE Spec2Model ----
(***************************************************************************)
(* The transaction-submission engine of lazy-signal-fire.                  *)
(*                                                                         *)
(* Two engine variants exist in the sources:                               *)
(*   "health" - src/src/logger.ts lines 54-320 (health probe, local        *)
(*              handlers around liveness, nonce, submit and confirmation)  *)
(*   "simple" - src/src/transaction.ts (one handler around the attempt)    *)
(* The variable `variant` selects the engine a run executes.               *)
(*                                                                         *)
(* One run of sendFireTransaction is one behaviour.  Every RPC answer, the *)
(* key store's answer and the latency of a receipt query are inputs drawn  *)
(* with \E.  Time is in milliseconds, fee amounts are in units of 1000 wei. *)
(***************************************************************************)
EXTENDS Integers, Sequences, FiniteSets, TLC

VARIABLES
    variant,        \* which engine runs: "health" or "simple"
    isTestMode,     \* config.isTestMode (process.argv.includes('--test'))
    pc,             \* position of the run in sendFireTransaction
    probeIdx,       \* health probe: index of the next endpoint to probe
    healthyRPCs,    \* health probe: endpoints found healthy so far
    endpointsToTry, \* the candidate list the rounds iterate
    attemptCount,   \* number of completed rounds
    rpcIdx,         \* index of the current endpoint in endpointsToTry
    keyLoaded,      \* the attempt holds the decrypted key / wallet
    nonce,          \* <<>> or <<n>>: nonce fetched in this attempt
    gasLimit,       \* <<>> or <<g>>: gas limit of this attempt
    txRequest,      \* <<>> or <<request>>
    tx,             \* <<>> or <<[hash |-> h]>>: response of sendTransaction
    receipt,        \* <<>> (null) or <<receipt>>: result of waitForTransaction
    result,         \* <<>> or <<h>>: value returned by sendFireTransaction
    error,          \* <<>> or <<message>>: error thrown by sendFireTransaction
    now,            \* Date.now()
    rpcLatency,     \* time one receipt query takes in this run
    startTime,      \* waitForTransaction: startTime
    lastLog,        \* waitForTransaction: lastLog
    \* observation of the run (what a stub or a log would record)
    attempted,      \* endpoints for which an attempt was started, in order
    sleeps,         \* number of retry delays slept
    probeCalls,     \* liveness calls issued by the health probe
    sendCalls,      \* calls of wallet.sendTransaction
    sentHashes,     \* hashes produced by successful sendTransaction calls
    keyFailedAt,    \* number of attempts started when the key first failed, or 0
    passedKeyNonce, \* some attempt got the key and the nonce
    pollCount,      \* receipt queries issued by waitForTransaction
    firstPollAt,    \* <<>> or <<t>>: time of the first receipt query
    receiptTick,    \* <<>> or <<k>>: sleeps done before the first query that was
                    \* answered with a receipt object
    lastQuery,      \* << >> or <<answer>>: the answer of the latest receipt query
    pollSleeps,     \* number of 5 s sleeps of the poller
    steps,          \* the calls made by the latest attempt, in order, each with
                    \* whether it succeeded
    probeOk,        \* per probed endpoint: the liveness call answered a string
    exit,           \* << >> or <<[code, cause]>>: how the process ended
    chain           \* the network: the account's transaction count, whether it
                    \* holds an accepted request with that nonce, and the number
                    \* of requests of this run it has mined

vars == << variant, isTestMode, pc, probeIdx, healthyRPCs, endpointsToTry,
           attemptCount, rpcIdx, keyLoaded, nonce, gasLimit, txRequest, tx,
           receipt, result, error, now, rpcLatency, startTime, lastLog,
           attempted, sleeps, probeCalls, sendCalls, sentHashes, keyFailedAt,
           passedKeyNonce, pollCount, firstPollAt, receiptTick, lastQuery,
           pollSleeps, steps, probeOk, exit, chain >>

(***************************************************************************)
(* Program constants                                                       *)
(***************************************************************************)
FIRE_FUNCTION == "0x457094cc"
MAX_RETRIES == 3
RETRY_DELAY_MS == 5000
CONFIRMATION_TIMEOUT_MS == 180000
DEFAULT_GAS == 100000
POLL_INTERVAL_MS == 5000
PROGRESS_LOG_MS == 15000
RPC_ENDPOINTS == << "dRPC", "Ronin RPC" >>
DEFAULT_CONTRACT_ADDRESS == "0x1136dac182ab639632a38540c6f33c01e02e51a6"
DEFAULT_PRIORITY_FEE == 20
DEFAULT_MAX_FEE == 2
\* mutant: another literal is returned in test mode
TEST_HASH_Other == [literal |-> "test"]
TEST_HASH == [literal |-> "test-transaction-hash"]
EXHAUSTED_MESSAGE == "Failed to send transaction after trying all available RPC endpoints"

(***************************************************************************)
(* Bounds of the environment                                               *)
(***************************************************************************)
MaxNonce == 1
MaxLatencySteps == 1
MaxGasEstimate == 250000
NonceValues == 0..MaxNonce
Latencies == { k * 2000 : k \in 0..MaxLatencySteps }
\* what eth_estimateGas can answer: the cost of a plain transfer, and the
\* largest amount an endpoint of this model reports
GasEstimates == { 21000, MaxGasEstimate }

\* answers of eth_blockNumber through callRPC (health probe)
BlockNumberAnswers == { "string", "nonstring", "error" }
\* outcomes of provider.getBlockNumber() (attempt-scoped connection test)
ConnectionAnswers == { "ok", "error" }
\* outcomes of loadAndDecryptKey()
KeyAnswers == { "ok", "missing", "undecryptable" }
\* outcomes of provider.getTransactionCount()
NonceAnswers == { [kind |-> "error"] } \cup { [kind |-> "ok", value |-> n] : n \in NonceValues }
\* results of eth_estimateGas that are not a hex quantity: the empty string
\* and a bare prefix
MalformedQuantities == { "", "0x" }
\* answers of eth_estimateGas: a failed call (transport or JSON-RPC error),
\* a result that is not a hex quantity, or the hex quantity of value g
GasAnswers == { [kind |-> "error"] }
                  \cup { [kind |-> "malformed", text |-> t] : t \in MalformedQuantities }
                  \cup { [kind |-> "ok", value |-> g] : g \in GasEstimates }
\* outcomes of wallet.sendTransaction()
SendAnswers == { "ok", "execution reverted", "error" }
\* answers of eth_getTransactionReceipt: a failed call, a null result, or a
\* receipt object whose status field is "0x1", "0x0" or not a hex number
ReceiptObjects == { [blockNumber |-> "0x10", status |-> s, gasUsed |-> "0x5208"] :
                      s \in { "0x1", "0x0", "zz" } }
ReceiptAnswers == { [kind |-> "error"], [kind |-> "null"] }
                     \cup { [kind |-> "receipt", value |-> r] : r \in ReceiptObjects }

(***************************************************************************)
(* Pure helpers                                                            *)
(***************************************************************************)
\* mutant: the type of the result is not looked at
IsRPCHealthy_AnyResult(answer) == answer # "error"

\* isRPCHealthy: typeof blockNumber === 'string'; a thrown call gives false
IsRPCHealthy(answer) == answer = "string"

\* mutant: the fallback keeps only the first configured endpoint
SelectEndpoints_FirstOnly(healthy) ==
    IF Len(healthy) > 0 THEN healthy ELSE << RPC_ENDPOINTS[1] >>

\* mutant: only the first healthy endpoint becomes a candidate
SelectEndpoints_FirstHealthy(healthy) ==
    IF Len(healthy) > 0 THEN << healthy[1] >> ELSE RPC_ENDPOINTS

\* mutant: the probe's verdict is ignored, every configured endpoint is a
\* candidate
SelectEndpoints_All(healthy) == RPC_ENDPOINTS

\* const endpointsToTry = healthyRPCs.length > 0 ? healthyRPCs : RPC_ENDPOINTS
SelectEndpoints(healthy) == IF Len(healthy) > 0 THEN healthy ELSE RPC_ENDPOINTS

\* BigInt(result): << >> when it throws.  BigInt of a hex quantity is its
\* value, BigInt("") is 0n, BigInt("0x") throws a SyntaxError
BigIntOf(answer) ==
    CASE answer.kind = "ok" -> << answer.value >>
      [] answer.kind = "malformed" /\ answer.text = "" -> << 0 >>
      [] OTHER -> << >>

\* estimateGas: BigInt(result) of the answer, DEFAULT_GAS when the call or
\* the conversion throws
EstimateGas(answer) ==
    IF answer.kind = "error" \/ BigIntOf(answer) = << >>
    THEN DEFAULT_GAS
    ELSE BigIntOf(answer)[1]

\* mutant: the test-mode return is missing
TestModeReturns_Never(testMode) == FALSE

\* if (isTestMode) return 'test-transaction-hash'
TestModeReturns(testMode) == testMode

\* ethers.parseUnits(x.toString(), 'gwei'): x * 10^9 wei, held here in units
\* of 1000 wei so that it fits the integers of the checker
ParseUnitsGwei(x) == x * 1000 * 1000

\* mutant: every endpoint gets the legacy request
BuildTxRequest_AlwaysLegacy(rpcName, gas, n) ==
    [ to |-> DEFAULT_CONTRACT_ADDRESS, data |-> FIRE_FUNCTION, gasLimit |-> gas,
      gasPrice |-> ParseUnitsGwei(DEFAULT_PRIORITY_FEE + DEFAULT_MAX_FEE),
      nonce |-> n ]

\* the request built for an endpoint: dRPC gets the two dynamic-fee fields
\* (a sum of two conversions), every other endpoint gasPrice (the conversion
\* of a sum)
BuildTxRequest(rpcName, gas, n) ==
    IF rpcName = "dRPC"
    THEN [ to |-> DEFAULT_CONTRACT_ADDRESS, data |-> FIRE_FUNCTION, gasLimit |-> gas,
           maxFeePerGas |-> ParseUnitsGwei(DEFAULT_PRIORITY_FEE)
                              + ParseUnitsGwei(DEFAULT_MAX_FEE),
           maxPriorityFeePerGas |-> ParseUnitsGwei(DEFAULT_PRIORITY_FEE), nonce |-> n ]
    ELSE [ to |-> DEFAULT_CONTRACT_ADDRESS, data |-> FIRE_FUNCTION, gasLimit |-> gas,
           gasPrice |-> ParseUnitsGwei(DEFAULT_PRIORITY_FEE + DEFAULT_MAX_FEE),
           nonce |-> n ]

\* tx.hash: the hash of the signed transaction, a function of the request
TxHashOf(req) == [ signed |-> req ]

\* parseInt(s, 16); NaN is modelled as -1
NaN == 0 - 1
ParseInt16(s) ==
    CASE s = "0x1" -> 1
      [] s = "0x0" -> 0
      [] s = "0x10" -> 16
      [] s = "0x5208" -> 21000
      [] OTHER -> NaN

\* getTransactionReceipt: the result of the call, null when the call throws
GetTransactionReceipt(answer) == IF answer.kind = "receipt" THEN << answer.value >> ELSE << >>

\* mutant: only a receipt with status 1 ends the polling
ReceiptPresent_SuccessOnly(r) == r # << >> /\ ParseInt16(r[1].status) = 1

\* if (receipt): a null result is falsy, a receipt object is truthy
ReceiptPresent(r) == r # << >>

\* mutant: the timeout is measured from the start of the run
WaitLoopRuns_FromEpoch(t, start) == t < CONFIRMATION_TIMEOUT_MS

\* mutant: the loop runs two poll intervals longer
WaitLoopRuns_TwoTicksLate(t, start) ==
    t - start < CONFIRMATION_TIMEOUT_MS + 2 * POLL_INTERVAL_MS

\* while (Date.now() - startTime < CONFIRMATION_TIMEOUT_MS)
WaitLoopRuns(t, start) == t - start < CONFIRMATION_TIMEOUT_MS

\* mutant: progress is logged as soon as 15 s have passed
ProgressDue_AtLeast(t, last) == t - last >= PROGRESS_LOG_MS

\* if (now - lastLog > 15000)
ProgressDue(t, last) == t - last > PROGRESS_LOG_MS

\* mutant: a timed-out confirmation is reported as unknown
ReturnedHash_UnknownOnTimeout(sent, rcpt) ==
    IF rcpt = << >> THEN [ literal |-> "unknown" ] ELSE sent.hash

\* the value sendFireTransaction returns after the poller ended
ReturnedHash(sent, rcpt) == sent.hash

\* mutant: off by one, a round too many
RoundsLeft_OffByOne(count) == count <= MAX_RETRIES

\* while (attemptCount < MAX_RETRIES) / if (attemptCount < MAX_RETRIES)
RoundsLeft(count) == count < MAX_RETRIES

\* mutant: a key error is rethrown
OnAttemptError_KeyFatal(kind) == IF kind = "key" THEN "throw" ELSE "continue"

\* the handler of an error thrown inside an attempt: logger.warn; continue
OnAttemptError(kind) == "continue"

(***************************************************************************)
(* Initial state: sendFireTransaction has just been called                 *)
(***************************************************************************)
\* the first position of sendFireTransaction
EntryPoint == IF variant = "health" THEN "probe" ELSE "attempt"

\* nothing has been done yet and control is at position p
Start(p) ==
    /\ variant \in { "health", "simple" }
    /\ isTestMode \in BOOLEAN
    /\ pc = p
    /\ probeIdx = 1
    /\ healthyRPCs = << >>
    /\ endpointsToTry = IF variant = "health" THEN << >> ELSE RPC_ENDPOINTS
    /\ attemptCount = 0
    /\ rpcIdx = 1
    /\ keyLoaded = FALSE
    /\ nonce = << >>
    /\ gasLimit = << >>
    /\ txRequest = << >>
    /\ tx = << >>
    /\ receipt = << >>
    /\ result = << >>
    /\ error = << >>
    /\ now = 0
    /\ rpcLatency \in Latencies
    /\ startTime = 0
    /\ lastLog = 0
    /\ attempted = << >>
    /\ sleeps = 0
    /\ probeCalls = 0
    /\ sendCalls = 0
    /\ sentHashes = << >>
    /\ keyFailedAt = 0
    /\ passedKeyNonce = FALSE
    /\ pollCount = 0
    /\ firstPollAt = << >>
    /\ receiptTick = << >>
    /\ lastQuery = << >>
    /\ pollSleeps = 0
    /\ steps = << >>
    /\ probeOk = << >>
    /\ exit = << >>
    /\ chain = [ nonce |-> 0, pending |-> FALSE, mined |-> 0 ]

Init == Start(EntryPoint)

pollerVars == << receipt, startTime, lastLog, pollCount, firstPollAt, receiptTick,
                 lastQuery, pollSleeps >>
\* what sendFireTransaction never changes
fixedVars == << variant, isTestMode, rpcLatency, exit, chain >>
probeVars == << probeIdx, healthyRPCs, probeCalls, probeOk >>
attemptLocals == << keyLoaded, nonce, gasLimit, txRequest >>

\* mutant: `continue` passes over the candidate that follows
Continue_SkipsNext ==
    /\ pc' = IF rpcIdx + 1 < Len(endpointsToTry) THEN "attempt" ELSE "round_end"
    /\ rpcIdx' = IF rpcIdx + 1 < Len(endpointsToTry) THEN rpcIdx + 2 ELSE rpcIdx
    /\ keyLoaded' = FALSE
    /\ nonce' = << >>
    /\ gasLimit' = << >>
    /\ txRequest' = << >>

\* `continue` in the for loop: the next endpoint of the round, or the end of
\* the round; the block-scoped locals of the attempt are gone
Continue ==
    /\ pc' = IF rpcIdx < Len(endpointsToTry) THEN "attempt" ELSE "round_end"
    /\ rpcIdx' = IF rpcIdx < Len(endpointsToTry) THEN rpcIdx + 1 ELSE rpcIdx
    /\ keyLoaded' = FALSE
    /\ nonce' = << >>
    /\ gasLimit' = << >>
    /\ txRequest' = << >>

\* what an error thrown inside an attempt leads to
Absorb(kind) ==
    IF OnAttemptError(kind) = "continue"
    THEN Continue /\ UNCHANGED << result, error >>
    ELSE /\ pc' = "failed"
         /\ error' = << kind >>
         /\ UNCHANGED << rpcIdx, keyLoaded, nonce, gasLimit, txRequest, result >>

(***************************************************************************)
(* Health probe (engine "health")                                          *)
(***************************************************************************)
ProbeHealth ==
    /\ pc = "probe"
    /\ probeIdx <= Len(RPC_ENDPOINTS)
    /\ \E answer \in BlockNumberAnswers :
          /\ healthyRPCs' = IF IsRPCHealthy(answer)
                            THEN Append(healthyRPCs, RPC_ENDPOINTS[probeIdx])
                            ELSE healthyRPCs
          /\ probeOk' = Append(probeOk, answer = "string")
    /\ probeCalls' = probeCalls + 1
    /\ probeIdx' = probeIdx + 1
    /\ UNCHANGED << fixedVars, pc, endpointsToTry, attemptCount, rpcIdx,
                    attemptLocals, tx, result, error, now, attempted, sleeps,
                    sendCalls, sentHashes, keyFailedAt, passedKeyNonce, pollerVars,
                    steps >>

ChooseEndpoints ==
    /\ pc = "probe"
    /\ probeIdx > Len(RPC_ENDPOINTS)
    /\ endpointsToTry' = SelectEndpoints(healthyRPCs)
    /\ pc' = "attempt"
    /\ UNCHANGED << fixedVars, probeVars, attemptCount, rpcIdx,
                    attemptLocals, tx, result, error, now, attempted, sleeps,
                    sendCalls, sentHashes, keyFailedAt, passedKeyNonce, pollerVars,
                    steps >>

(***************************************************************************)
(* One attempt on endpointsToTry[rpcIdx]                                   *)
(***************************************************************************)
\* mutant: the `continue` after a failed connection test is missing
ConnectionTest_NoContinue ==
    /\ pc = "attempt"
    /\ attempted' = Append(attempted, endpointsToTry[rpcIdx])
    /\ \E answer \in ConnectionAnswers :
          steps' = << [ step |-> "connection", ok |-> answer = "ok" ] >>
    /\ pc' = "key"
    /\ UNCHANGED << rpcIdx, attemptLocals, result, error >>
    /\ UNCHANGED << fixedVars, probeVars, endpointsToTry, attemptCount,
                    tx, now, sleeps, sendCalls, sentHashes, keyFailedAt,
                    passedKeyNonce, pollerVars >>

\* the attempt starts; provider.getBlockNumber() is the connection test
ConnectionTest ==
    /\ pc = "attempt"
    /\ attempted' = Append(attempted, endpointsToTry[rpcIdx])
    /\ \E answer \in ConnectionAnswers :
          /\ steps' = << [ step |-> "connection", ok |-> answer = "ok" ] >>
          /\ IF answer = "ok"
             THEN /\ pc' = "key"
                  /\ UNCHANGED << rpcIdx, attemptLocals, result, error >>
             ELSE Absorb("connection")
    /\ UNCHANGED << fixedVars, probeVars, endpointsToTry, attemptCount,
                    tx, now, sleeps, sendCalls, sentHashes, keyFailedAt,
                    passedKeyNonce, pollerVars >>

\* loadAndDecryptKey() and new ethers.Wallet(privateKey, provider)
LoadKey ==
    /\ pc = "key"
    /\ \E answer \in KeyAnswers :
          /\ steps' = Append(steps, [ step |-> "key", ok |-> answer = "ok" ])
          /\ IF answer = "ok"
             THEN /\ pc' = "nonce"
                  /\ keyLoaded' = TRUE
                  /\ UNCHANGED << rpcIdx, nonce, gasLimit, txRequest, result, error,
                                  keyFailedAt >>
             ELSE /\ Absorb("key")
                  /\ keyFailedAt' = IF keyFailedAt = 0 THEN Len(attempted) ELSE keyFailedAt
    /\ UNCHANGED << fixedVars, probeVars, endpointsToTry, attemptCount,
                    tx, now, attempted, sleeps, sendCalls, sentHashes,
                    passedKeyNonce, pollerVars >>

\* mutant: a failed nonce fetch is answered with nonce 0 and the attempt
\* goes on
GetNonce_DefaultsOnError ==
    /\ pc = "nonce"
    /\ \E answer \in NonceAnswers :
          /\ steps' = Append(steps, [ step |-> "nonce", ok |-> answer.kind = "ok",
                                      answer |-> answer,
                                      endpoint |-> endpointsToTry[rpcIdx] ])
          /\ nonce' = IF answer.kind = "ok" THEN << answer.value >> ELSE << 0 >>
    /\ pc' = "gas"
    /\ passedKeyNonce' = TRUE
    /\ UNCHANGED << rpcIdx, keyLoaded, gasLimit, txRequest, result, error >>
    /\ UNCHANGED << fixedVars, probeVars, endpointsToTry, attemptCount,
                    tx, now, attempted, sleeps, sendCalls, sentHashes, keyFailedAt,
                    pollerVars >>

\* provider.getTransactionCount(wallet.address)
GetNonce ==
    /\ pc = "nonce"
    /\ \E answer \in NonceAnswers :
          /\ steps' = Append(steps, [ step |-> "nonce", ok |-> answer.kind = "ok",
                                      answer |-> answer,
                                      endpoint |-> endpointsToTry[rpcIdx] ])
          /\ IF answer.kind = "ok"
             THEN /\ pc' = "gas"
                  /\ nonce' = << answer.value >>
                  /\ passedKeyNonce' = TRUE
                  /\ UNCHANGED << rpcIdx, keyLoaded, gasLimit, txRequest, result, error >>
             ELSE /\ Absorb("nonce")
                  /\ UNCHANGED passedKeyNonce
    /\ UNCHANGED << fixedVars, probeVars, endpointsToTry, attemptCount,
                    tx, now, attempted, sleeps, sendCalls, sentHashes, keyFailedAt,
                    pollerVars >>

\* estimateGas, then the test-mode return or the construction of the request
EstimateAndBuild ==
    /\ pc = "gas"
    /\ \E answer \in GasAnswers :
          /\ steps' = Append(steps, [ step |-> "gas", ok |-> answer.kind = "ok" ])
          /\ gasLimit' = << EstimateGas(answer) >>
          /\ IF TestModeReturns(isTestMode)
             THEN /\ result' = << TEST_HASH >>
                  /\ pc' = "returned"
                  /\ UNCHANGED txRequest
             ELSE /\ txRequest' = << BuildTxRequest(endpointsToTry[rpcIdx],
                                                    EstimateGas(answer), nonce[1]) >>
                  /\ pc' = "send"
                  /\ UNCHANGED result
    /\ UNCHANGED << fixedVars, probeVars, endpointsToTry, attemptCount,
                    rpcIdx, keyLoaded, nonce, tx, error, now, attempted, sleeps,
                    sendCalls, sentHashes, keyFailedAt, passedKeyNonce, pollerVars >>

\* wallet.sendTransaction(txRequest); on success waitForTransaction starts
SendTransaction ==
    /\ pc = "send"
    /\ sendCalls' = sendCalls + 1
    /\ \E answer \in SendAnswers :
          /\ steps' = Append(steps, [ step |-> "send", ok |-> answer = "ok",
                                      answer |-> answer, request |-> txRequest[1],
                                      endpoint |-> endpointsToTry[rpcIdx] ])
          /\ IF answer = "ok"
             THEN /\ tx' = << [ hash |-> TxHashOf(txRequest[1]) ] >>
                  /\ sentHashes' = Append(sentHashes, TxHashOf(txRequest[1]))
                  /\ startTime' = now
                  /\ lastLog' = now
                  /\ pc' = "wait"
                  /\ UNCHANGED << rpcIdx, attemptLocals, result, error >>
             ELSE /\ Absorb(answer)
                  /\ UNCHANGED << tx, sentHashes, startTime, lastLog >>
    /\ UNCHANGED << fixedVars, probeVars, endpointsToTry, attemptCount,
                    now, attempted, sleeps, keyFailedAt, passedKeyNonce, receipt,
                    pollCount, firstPollAt, receiptTick, lastQuery, pollSleeps >>

(***************************************************************************)
(* waitForTransaction: the confirmation poller.  getTransactionReceipt     *)
(* catches every error of the call, so the loop's own catch never runs.    *)
(***************************************************************************)
\* one iteration of the while loop: the query, then either the receipt is
\* returned and sendFireTransaction returns tx.hash, or progress is logged
\* when due and the poller sleeps
PollTick ==
    /\ pc = "wait"
    /\ WaitLoopRuns(now, startTime)
    /\ pollCount' = pollCount + 1
    /\ firstPollAt' = IF firstPollAt = << >> THEN << now >> ELSE firstPollAt
    /\ \E answer \in ReceiptAnswers :
          LET r == GetTransactionReceipt(answer)
              t == now + rpcLatency
          IN  /\ lastQuery' = << answer >>
              /\ receiptTick' = IF answer.kind = "receipt" /\ receiptTick = << >>
                                THEN << pollSleeps >> ELSE receiptTick
              /\ IF ReceiptPresent(r)
                 THEN /\ receipt' = r
                      /\ now' = t
                      /\ result' = << ReturnedHash(tx[1], r) >>
                      /\ pc' = "returned"
                      /\ UNCHANGED << lastLog, pollSleeps >>
                 ELSE /\ lastLog' = IF ProgressDue(t, lastLog) THEN t ELSE lastLog
                      /\ now' = t + POLL_INTERVAL_MS
                      /\ pollSleeps' = pollSleeps + 1
                      /\ UNCHANGED << receipt, result, pc >>
    /\ UNCHANGED << fixedVars, probeVars, endpointsToTry, attemptCount,
                    rpcIdx, attemptLocals, tx, error, startTime, attempted,
                    sleeps, sendCalls, sentHashes, keyFailedAt, passedKeyNonce,
                    steps >>

\* mutant: a confirmation timeout is handled like a failed submit, the run
\* goes on with the next candidate
PollTimeout_Retries ==
    /\ pc = "wait"
    /\ ~ WaitLoopRuns(now, startTime)
    /\ receipt' = << >>
    /\ Continue
    /\ UNCHANGED << fixedVars, probeVars, endpointsToTry, attemptCount,
                    tx, result, error, now, startTime, lastLog,
                    attempted, sleeps, sendCalls, sentHashes, keyFailedAt,
                    passedKeyNonce, pollCount, firstPollAt, receiptTick, lastQuery,
                    pollSleeps, steps >>

\* the loop condition fails: the timeout warning, waitForTransaction returns
\* null and sendFireTransaction returns tx.hash
PollTimeout ==
    /\ pc = "wait"
    /\ ~ WaitLoopRuns(now, startTime)
    /\ receipt' = << >>
    /\ result' = << ReturnedHash(tx[1], << >>) >>
    /\ pc' = "timed_out"
    /\ UNCHANGED << fixedVars, probeVars, endpointsToTry, attemptCount,
                    rpcIdx, attemptLocals, tx, error, now, startTime, lastLog,
                    attempted, sleeps, sendCalls, sentHashes, keyFailedAt,
                    passedKeyNonce, pollCount, firstPollAt, receiptTick, lastQuery,
                    pollSleeps, steps >>

(***************************************************************************)
(* The end of a round: attemptCount++, then the retry delay or the throw   *)
(***************************************************************************)
EndRound ==
    /\ pc = "round_end"
    /\ attemptCount' = attemptCount + 1
    /\ IF RoundsLeft(attemptCount + 1)
       THEN /\ sleeps' = sleeps + 1
            /\ now' = now + RETRY_DELAY_MS
            /\ rpcIdx' = 1
            /\ pc' = "attempt"
            /\ UNCHANGED error
       ELSE /\ error' = << EXHAUSTED_MESSAGE >>
            /\ pc' = "failed"
            /\ UNCHANGED << sleeps, now, rpcIdx >>
    /\ UNCHANGED << fixedVars, probeVars, endpointsToTry, attemptLocals,
                    tx, result, attempted, sendCalls, sentHashes, keyFailedAt,
                    passedKeyNonce, pollerVars, steps >>

Next ==
    \/ ProbeHealth
    \/ ChooseEndpoints
    \/ ConnectionTest
    \/ LoadKey
    \/ GetNonce
    \/ EstimateAndBuild
    \/ SendTransaction
    \/ PollTick
    \/ PollTimeout
    \/ EndRound

Spec == Init /\ [][Next]_vars

\* every RPC call, every key read and every sleep returns: a run that can
\* take a step takes one
FairSpec == Spec /\ WF_vars(Next)

(***************************************************************************)
(* The engine and the network it talks to.  The endpoints report the       *)
(* account's transaction count of the latest block; a submit that was      *)
(* answered, or that failed in transport, may have reached the network.    *)
(***************************************************************************)
\* a step of sendFireTransaction; getTransactionCount answers with the
\* account's transaction count
ChainEngineStep ==
    /\ Next
    /\ (pc = "nonce" /\ pc' = "gas") => nonce' = << chain.nonce >>

\* the network has accepted the request of the latest sendTransaction call:
\* a call that was answered, or one whose answer was lost in transport; the
\* network takes a request only with the nonce the account is at
NetworkAccepts ==
    /\ Len(steps) = 5
    /\ steps[5].answer \in { "ok", "error" }
    /\ steps[5].request.nonce = chain.nonce
    /\ ~ chain.pending
    /\ chain' = [ chain EXCEPT !.pending = TRUE ]
    /\ UNCHANGED << variant, isTestMode, rpcLatency, exit, pc, probeVars,
                    endpointsToTry, attemptCount, rpcIdx, attemptLocals, tx, result,
                    error, now, attempted, sleeps, sendCalls, sentHashes,
                    keyFailedAt, passedKeyNonce, pollerVars, steps >>

\* a block is mined: it takes the accepted request, the account's
\* transaction count goes up by one
Mine ==
    /\ chain.pending
    /\ chain' = [ nonce |-> chain.nonce + 1, pending |-> FALSE,
                  mined |-> chain.mined + 1 ]
    /\ UNCHANGED << variant, isTestMode, rpcLatency, exit, pc, probeVars,
                    endpointsToTry, attemptCount, rpcIdx, attemptLocals, tx, result,
                    error, now, attempted, sleeps, sendCalls, sentHashes,
                    keyFailedAt, passedKeyNonce, pollerVars, steps >>

NextChain ==
    \/ ChainEngineStep
    \/ NetworkAccepts
    \/ Mine

ChainSpec == Init /\ [][NextChain]_vars

(***************************************************************************)
(* The program around the engine: main() of index.ts, the SIGINT handler,  *)
(* and the exit code of the process                                        *)
(***************************************************************************)
\* mutant: the failure paths of main do not set the exit code
ExitCodeOf_AlwaysZero(cause) == 0

\* the exit code of each way the process ends: process.exit(1) in the three
\* failure paths of main, process.exit(0) in the SIGINT handler, and 0 when
\* main returns and the process ends by itself
ExitCodeOf(cause) == IF cause \in { "done", "SIGINT" } THEN 0 ELSE 1

\* the positions where the program awaits (a prompt, an RPC call, a sleep):
\* only there can the event loop run a signal handler
AwaitPoints == { "prompt", "probe", "attempt", "nonce", "gas", "send", "wait" }

\* everything but the position and the exit of the process
mainFrame == << variant, isTestMode, rpcLatency, chain, probeVars, endpointsToTry,
                attemptCount, rpcIdx, attemptLocals, tx, result, error, now,
                attempted, sleeps, sendCalls, sentHashes, keyFailedAt,
                passedKeyNonce, pollerVars, steps >>

InitMain == Start("main")

\* main starts: keyFileExists() decides between the first-run setup and the
\* call of sendFireTransaction
MainStart ==
    /\ pc = "main"
    /\ exit = << >>
    /\ \E keyFileExists \in BOOLEAN :
          pc' = IF keyFileExists THEN EntryPoint ELSE "prompt"
    /\ UNCHANGED << exit, mainFrame >>

\* first run: the prompt for the key, then encryptAndSaveKey; a cancelled
\* prompt and a failed encryption both end in process.exit(1)
CaptureKey ==
    /\ pc = "prompt"
    /\ exit = << >>
    /\ \E outcome \in { "saved", "cancelled", "encrypt failed" } :
          IF outcome = "saved"
          THEN pc' = EntryPoint /\ UNCHANGED exit
          ELSE /\ exit' = << [ code |-> ExitCodeOf(outcome), cause |-> outcome ] >>
               /\ UNCHANGED pc
    /\ UNCHANGED mainFrame

\* sendFireTransaction settled: main returns and the process ends by itself,
\* or the catch of main calls process.exit(1)
MainEnd ==
    /\ pc \in { "returned", "timed_out", "failed" }
    /\ exit = << >>
    /\ LET cause == IF pc = "failed" THEN "send failed" ELSE "done"
       IN  exit' = << [ code |-> ExitCodeOf(cause), cause |-> cause ] >>
    /\ UNCHANGED << pc, mainFrame >>

\* the SIGINT handler runs: process.exit(0)
SigInt ==
    /\ pc \in AwaitPoints
    /\ exit = << >>
    /\ exit' = << [ code |-> ExitCodeOf("SIGINT"), cause |-> "SIGINT" ] >>
    /\ UNCHANGED << pc, mainFrame >>

\* a step of sendFireTransaction while the process lives
EngineStep == exit = << >> /\ Next

NextMain ==
    \/ MainStart
    \/ CaptureKey
    \/ EngineStep
    \/ MainEnd
    \/ SigInt

SpecMain == InitMain /\ [][NextMain]_vars

Terminated == pc \in { "returned", "timed_out", "failed" }

\* the round (1-based) of the latest attempt that was started
RoundOfLastAttempt == ((Len(attempted) - 1) \div Len(endpointsToTry)) + 1

TypeOK ==
    /\ variant \in { "health", "simple" }
    /\ isTestMode \in BOOLEAN
    /\ pc \in { "main", "prompt", "probe", "attempt", "key", "nonce", "gas",
                 "send", "wait", "round_end", "returned", "timed_out", "failed" }
    /\ attemptCount \in 0..MAX_RETRIES
    /\ rpcIdx \in 1..Len(RPC_ENDPOINTS)
    /\ Len(attempted) <= MAX_RETRIES * Len(RPC_ENDPOINTS)
    /\ sleeps \in 0..MAX_RETRIES

(***************************************************************************)
(* Claims                                                                  *)
(***************************************************************************)
\* the candidate list iterated k times
RECURSIVE Rounds(_, _)
Rounds(list, k) == IF k = 0 THEN << >> ELSE list \o Rounds(list, k - 1)

\* C1: sendFireTransaction fails exactly when all MAX_RETRIES rounds ended
\* with every attempt on every candidate failed: a failure comes only after
\* the last round, carries the exhaustion error and no hash, no submit of the
\* run has succeeded; and a run whose last round ended has failed.
C1_FailsIffExhausted ==
    /\ pc = "failed" =>
          /\ attempted = Rounds(endpointsToTry, MAX_RETRIES)
          /\ error = << "Failed to send transaction after trying all available RPC endpoints" >>
          /\ result = << >>
          /\ sentHashes = << >>
          /\ tx = << >>
    /\ pc # "failed" => error = << >>
    /\ attemptCount = MAX_RETRIES => pc = "failed"

\* C1 witness: an exhausted run in which submits were made and all failed
C1_Witness == pc = "failed" /\ sendCalls = MAX_RETRIES * Len(RPC_ENDPOINTS)

\* C2: once a submit has succeeded the run only waits for the confirmation
\* and then returns exactly the hash of that submit, whether the poller ended
\* with a receipt (status 1 or not) or with a timeout.
C2_ReturnsSubmittedHash ==
    sentHashes # << >> =>
        /\ Len(sentHashes) = 1
        /\ pc \in { "wait", "returned", "timed_out" }
        /\ error = << >>
        /\ pc # "wait" => result = << sentHashes[1] >>

\* C2 witness: the poller timed out and the submitted hash was returned
C2_Witness ==
    /\ pc = "timed_out"
    /\ receipt = << >>
    /\ sentHashes # << >>
    /\ result = << sentHashes[1] >>

\* C3: when the health probe finds no healthy endpoint, the candidates are
\* the configured endpoints in their order, every one of them is attempted
\* before the run can fail, and no run fails without an attempt.
C3_FallbackToFullList ==
    /\ (variant = "health" /\ pc # "probe" /\ healthyRPCs = << >>) =>
          /\ endpointsToTry = RPC_ENDPOINTS
          /\ pc = "failed" =>
                /\ \A i \in 1..Len(RPC_ENDPOINTS) :
                      \E j \in 1..Len(attempted) : attempted[j] = RPC_ENDPOINTS[i]
                /\ SubSeq(attempted, 1, Len(RPC_ENDPOINTS)) = RPC_ENDPOINTS
    /\ pc = "failed" => attempted # << >>

\* C3 witness: no endpoint was healthy at the probe and the run is exhausted
C3_Witness ==
    /\ variant = "health"
    /\ probeCalls = Len(RPC_ENDPOINTS)
    /\ healthyRPCs = << >>
    /\ pc = "failed"

\* C4 (as claimed): after the first failure to decrypt the key the run has
\* failed at once: no later attempt, no retry delay, no later round.
C4_KeyErrorIsFatal ==
    keyFailedAt > 0 =>
        /\ pc = "failed"
        /\ Len(attempted) = keyFailedAt
        /\ sleeps = (keyFailedAt - 1) \div Len(endpointsToTry)
        /\ attemptCount = (keyFailedAt - 1) \div Len(endpointsToTry)

\* C5: in test mode wallet.sendTransaction is never called and the
\* confirmation poller never starts.
C5_TestModeNeverSubmits ==
    isTestMode =>
        /\ sendCalls = 0
        /\ sentHashes = << >>
        /\ tx = << >>
        /\ pollCount = 0
        /\ pc \notin { "send", "wait", "timed_out" }

\* C5 witness: a test-mode run returned from an attempt that reached the
\* point where a production run submits
C5_Witness == isTestMode /\ pc = "returned" /\ gasLimit # << >> /\ Len(attempted) > 1

\* C6 (as claimed): in test mode every run that ends returns the sentinel.
C6_TestModeAlwaysSentinel ==
    (isTestMode /\ Terminated) => result = << [ literal |-> "test-transaction-hash" ] >>

\* C6 (amended): in test mode the run returns the sentinel
\* 'test-transaction-hash', and nothing else, as soon as an attempt passes the
\* connection test, the key decryption and the nonce fetch, whatever the gas
\* estimate answers; a run in which no attempt passes them fails.
C6_TestModeSentinelWhenReached ==
    isTestMode =>
        /\ pc = "returned" => result = << [ literal |-> "test-transaction-hash" ] >>
        /\ result # << >> => (pc = "returned" /\ passedKeyNonce)
        /\ passedKeyNonce => pc \in { "gas", "returned" }
        /\ pc = "failed" => ~ passedKeyNonce

\* C6 witness: the sentinel is returned although the key failed in an
\* earlier attempt and the gas estimate failed in this one
C6_Witness ==
    /\ isTestMode
    /\ pc = "returned"
    /\ result = << [ literal |-> "test-transaction-hash" ] >>
    /\ keyFailedAt > 0
    /\ gasLimit = << DEFAULT_GAS >>

\* C7: waitForTransaction returns null (timed out) only when at least
\* CONFIRMATION_TIMEOUT_MS have passed since its first receipt query.
C7_NoEarlyTimeout ==
    pc = "timed_out" =>
        /\ receipt = << >>
        /\ firstPollAt # << >>
        /\ now - firstPollAt[1] >= 180000

\* C7 witness: a timeout of a poller that started after a retry delay
C7_Witness == pc = "timed_out" /\ firstPollAt # << >> /\ firstPollAt[1] > 0

\* C8: a query answered with a receipt object ends the polling at once: the
\* poller returns that receipt (status 1 or not), there is no timeout and no
\* later query; the query after N sleeps is issued only when N * 5 s is
\* below the timeout.
C8_ReceiptEndsPolling ==
    receiptTick # << >> =>
        /\ pc = "returned"
        /\ receipt = << lastQuery[1].value >>
        /\ pollCount = receiptTick[1] + 1
        /\ receiptTick[1] * 5000 < 180000

\* C8 witness: a reverted receipt found by the last query before the timeout
C8_Witness ==
    /\ receiptTick = << 35 >>
    /\ pc = "returned"
    /\ receipt # << >>
    /\ receipt[1].status = "0x0"

\* C9 (as claimed): a query that failed, or whose receipt cannot be decoded,
\* counts as 'no receipt': the poller keeps waiting (or times out later) and
\* holds no receipt.
QueryFailedOrUndecodable(answer) ==
    \/ answer.kind = "error"
    \/ answer.kind = "receipt" /\ ParseInt16(answer.value.status) = NaN
C9_FailedQueryIsAbsent ==
    (lastQuery # << >> /\ QueryFailedOrUndecodable(lastQuery[1])) =>
        /\ pc \in { "wait", "timed_out" }
        /\ receipt = << >>

\* C10: the retry delay is slept once between consecutive rounds and never
\* else: a run that returns in round r has slept r-1 delays, an exhausted
\* run MAX_RETRIES-1, and at any time the delays slept are the rounds begun
\* less one.
C10_RetryDelayBetweenRounds ==
    /\ (pc \in { "returned", "timed_out" }) => sleeps = RoundOfLastAttempt - 1
    /\ pc = "failed" => sleeps = MAX_RETRIES - 1
    /\ (attempted # << >> /\ pc # "attempt") => sleeps = RoundOfLastAttempt - 1
    /\ pc = "attempt" => sleeps = Len(attempted) \div Len(endpointsToTry)
    /\ attempted = << >> => sleeps = 0
    /\ (IF sentHashes = << >> THEN now ELSE startTime) = sleeps * RETRY_DELAY_MS

\* C10 witness: the first endpoint accepts the submit in round 2 and the
\* hash is returned after one retry delay
C10_Witness ==
    /\ pc = "returned"
    /\ sentHashes # << >>
    /\ Len(attempted) = Len(endpointsToTry) + 1
    /\ sleeps = 1

\* s is an initial part of t
IsPrefix(s, t) == Len(s) <= Len(t) /\ s = SubSeq(t, 1, Len(s))

\* the position of endpoint e in the configured list
ConfiguredIndex(e) == CHOOSE i \in 1..Len(RPC_ENDPOINTS) : RPC_ENDPOINTS[i] = e

\* the latest call of the latest attempt failed and the failure ended the
\* attempt (a failed gas estimate does not)
AttemptFailed ==
    /\ steps # << >>
    /\ ~ steps[Len(steps)].ok
    /\ steps[Len(steps)].step # "gas"

\* C11: the candidates keep the configured order, every round attempts them
\* from the first one on, in that order; when the connection test, the key,
\* the nonce fetch or the submit of candidate i fails, control is at
\* candidate i+1 of the same round or at the end of the round: no candidate
\* is attempted twice in a round, none is passed over, and the run goes on.
C11_FixedOrderNoAbort ==
    pc # "probe" =>
        /\ \A i, j \in 1..Len(endpointsToTry) :
               i < j => ConfiguredIndex(endpointsToTry[i]) < ConfiguredIndex(endpointsToTry[j])
        /\ IsPrefix(attempted, Rounds(endpointsToTry, MAX_RETRIES))
        /\ pc \in { "key", "nonce", "gas", "send", "wait", "returned", "timed_out" } =>
               Len(attempted) = attemptCount * Len(endpointsToTry) + rpcIdx
        /\ pc = "attempt" =>
               Len(attempted) = attemptCount * Len(endpointsToTry) + rpcIdx - 1
        /\ pc = "round_end" =>
               Len(attempted) = (attemptCount + 1) * Len(endpointsToTry)
        /\ AttemptFailed =>
               /\ pc \in { "attempt", "round_end", "failed" }
               /\ pc = "failed" => Len(attempted) = MAX_RETRIES * Len(endpointsToTry)

\* C11 witness: in round 2 the submit on the first of two candidates failed
\* and control is at the second candidate of that round
C11_Witness ==
    /\ pc = "attempt"
    /\ attemptCount = 1
    /\ rpcIdx = 2
    /\ Len(steps) = 5
    /\ ~ steps[5].ok
    /\ Len(attempted) = Len(endpointsToTry) + 1

\* the number of attempts started on endpoint e
AttemptsOn(e) == Cardinality({ j \in 1..Len(attempted) : attempted[j] = e })

\* C12 (as claimed): in an exhausted run every configured endpoint has been
\* attempted in every round, also one that failed the health probe.
C12_NoEndpointExcluded ==
    pc = "failed" =>
        \A i \in 1..Len(RPC_ENDPOINTS) : AttemptsOn(RPC_ENDPOINTS[i]) = MAX_RETRIES

\* C12 (amended): the candidates are fixed when the probe ends - the
\* endpoints found healthy, or all configured ones when none was (and all of
\* them in the engine without a probe) - and are never pruned afterwards: an
\* exhausted run has attempted every candidate in every round, and an
\* endpoint that is not a candidate is never attempted.
C12_CandidatesNeverPruned ==
    pc # "probe" =>
        /\ endpointsToTry = IF variant = "health" /\ healthyRPCs # << >>
                            THEN healthyRPCs ELSE RPC_ENDPOINTS
        /\ \A j \in 1..Len(attempted) :
               \E i \in 1..Len(endpointsToTry) : attempted[j] = endpointsToTry[i]
        /\ pc = "failed" =>
               \A i \in 1..Len(endpointsToTry) : AttemptsOn(endpointsToTry[i]) = MAX_RETRIES

\* C12 witness: dRPC failed the probe, Ronin RPC passed it, and the run is
\* exhausted after three attempts on Ronin RPC and none on dRPC
C12_Witness ==
    /\ pc = "failed"
    /\ probeOk = << FALSE, TRUE >>
    /\ AttemptsOn("Ronin RPC") = MAX_RETRIES
    /\ AttemptsOn("dRPC") = 0

\* the first k configured endpoints whose liveness call answered a string, in
\* the configured order
RECURSIVE PassedProbe(_)
PassedProbe(k) ==
    IF k = 0 THEN << >>
    ELSE IF probeOk[k] THEN Append(PassedProbe(k - 1), RPC_ENDPOINTS[k])
         ELSE PassedProbe(k - 1)

\* C13: the health probe runs once, before the first attempt: it makes one
\* liveness call per configured endpoint, in order, and none after the
\* rounds began; no answer makes the run fail; the endpoints it keeps are
\* those whose call answered a string, in the configured order.
C13_ProbeOnceBeforeRounds ==
    variant = "health" =>
        /\ probeCalls = Len(probeOk)
        /\ probeCalls = probeIdx - 1
        /\ healthyRPCs = PassedProbe(Len(probeOk))
        /\ pc = "probe" =>
               /\ probeCalls <= Len(RPC_ENDPOINTS)
               /\ attempted = << >>
               /\ attemptCount = 0
               /\ sleeps = 0
               /\ error = << >>
        /\ pc # "probe" => probeCalls = Len(RPC_ENDPOINTS)

\* C13 witness: an exhausted run, two retry delays slept, whose probe kept
\* dRPC only: two liveness calls were made by the probe in the whole run
C13_Witness ==
    /\ variant = "health"
    /\ pc = "failed"
    /\ sleeps = 2
    /\ probeCalls = 2
    /\ probeOk = << TRUE, FALSE >>
    /\ healthyRPCs = << "dRPC" >>

\* C14 (as claimed): when the gas estimate of the latest attempt failed (the
\* call failed or its result was not a hex quantity) the attempt goes on, on
\* the same endpoint, with the default gas limit 100000, and the request
\* built for the submit carries that limit.
C14_FailedEstimateGivesDefault ==
    (Len(steps) >= 4 /\ ~ steps[4].ok) =>
        /\ gasLimit = << 100000 >>
        /\ txRequest # << >> => txRequest[1].gasLimit = 100000

\* C15 (as claimed): the gas limit of a request is capped by a fixed ceiling:
\* it stays below the largest estimate an endpoint reports.
C15_GasLimitIsCapped ==
    txRequest # << >> => txRequest[1].gasLimit < MaxGasEstimate

\* C16: the fee fields of a request depend on the endpoint alone.  For dRPC
\* the request carries maxFeePerGas = 20 + 2 = 22 gwei and
\* maxPriorityFeePerGas = 20 gwei and no gasPrice; for any other endpoint it
\* carries gasPrice = 22 gwei and no dynamic-fee field.  (Amounts in units of
\* 1000 wei: 1 gwei = 1000000.)
C16_FeeFieldsByEndpoint ==
    txRequest # << >> =>
        LET r == txRequest[1]
            endpoint == attempted[Len(attempted)]
            common == { "to", "data", "gasLimit", "nonce" }
        IN  /\ endpoint = endpointsToTry[rpcIdx]
            /\ r.to = DEFAULT_CONTRACT_ADDRESS
            /\ r.data = FIRE_FUNCTION
            /\ r.gasLimit = gasLimit[1]
            /\ r.nonce = nonce[1]
            /\ IF endpoint = "dRPC"
               THEN /\ DOMAIN r = common \cup { "maxFeePerGas", "maxPriorityFeePerGas" }
                    /\ r.maxFeePerGas = (DEFAULT_PRIORITY_FEE + DEFAULT_MAX_FEE) * 1000000
                    /\ r.maxPriorityFeePerGas = DEFAULT_PRIORITY_FEE * 1000000
               ELSE /\ DOMAIN r = common \cup { "gasPrice" }
                    /\ r.gasPrice = (DEFAULT_PRIORITY_FEE + DEFAULT_MAX_FEE) * 1000000

\* C16 witness: in one run a legacy request failed on Ronin RPC and, in the
\* next round, a dynamic-fee request was accepted by dRPC
C16_Witness ==
    /\ pc = "wait"
    /\ attempted = << "dRPC", "Ronin RPC", "dRPC" >>
    /\ sendCalls = 2
    /\ "maxFeePerGas" \in DOMAIN txRequest[1]
    /\ txRequest[1].maxFeePerGas = 22000000

\* C17: when the process has ended, its exit code is 0 if sendFireTransaction
\* returned a hash, not 0 if sendFireTransaction failed or the first-run key
\* capture was cancelled or the encryption failed, and 0 if the SIGINT
\* handler ended it - wherever the run was, also after a submit succeeded;
\* nothing else gives the code 0.
C17_ExitCodes ==
    exit # << >> =>
        LET e == exit[1]
        IN  /\ (e.cause # "SIGINT" /\ result # << >>) => e.code = 0
            /\ pc = "failed" => (e.code # 0 /\ error # << >> /\ result = << >>)
            /\ e.cause \in { "cancelled", "encrypt failed" } =>
                   (e.code # 0 /\ pc = "prompt" /\ attempted = << >>)
            /\ e.cause = "SIGINT" => (e.code = 0 /\ pc \in AwaitPoints)
            /\ e.code = 0 => (e.cause = "SIGINT" \/ pc \in { "returned", "timed_out" })

\* C17 witness: SIGINT while the poller waits for the confirmation of a
\* transaction that was broadcast: exit code 0
C17_Witness ==
    /\ exit # << >>
    /\ exit[1].cause = "SIGINT"
    /\ exit[1].code = 0
    /\ pc = "wait"
    /\ sentHashes # << >>
    /\ pollCount > 0

\* C18: at most one submit succeeds in a run, and once a submit has
\* succeeded no step of the run calls sendTransaction again, starts another
\* attempt or changes the hash obtained.
C18_AtMostOneSubmitSucceeds ==
    [][ /\ Len(sentHashes') <= 1
        /\ sentHashes # << >> =>
               /\ sendCalls' = sendCalls
               /\ sentHashes' = sentHashes
               /\ attempted' = attempted
               /\ tx' = tx ]_vars

\* C18 witness: the third submit of the run succeeded and its confirmation
\* timed out: the run ended without a fourth submit
C18_Witness ==
    /\ pc = "timed_out"
    /\ sendCalls = 3
    /\ Len(sentHashes) = 1
    /\ Len(attempted) = 3

\* C19: when every call and every sleep returns, a run ends: it returns a
\* hash or fails with the exhaustion error.  It starts at most MAX_RETRIES
\* attempts per candidate; the poller issues at most one query per poll
\* interval of the timeout, and when it times out less than one tick (a
\* query and a sleep) has passed beyond the timeout.
C19_TerminatesWithinBounds ==
    /\ <>(pc \in { "returned", "timed_out", "failed" })
    /\ [](Len(attempted) <= MAX_RETRIES * Len(endpointsToTry))
    /\ [](pollCount <= CONFIRMATION_TIMEOUT_MS \div POLL_INTERVAL_MS)
    /\ [](pc = "timed_out" =>
             now - startTime < CONFIRMATION_TIMEOUT_MS + POLL_INTERVAL_MS + rpcLatency)

\* C19 witness: a run that used every attempt it has - the last candidate of
\* the last round accepted the submit - and whose poller ran into the timeout
C19_Witness ==
    /\ pc = "timed_out"
    /\ Len(attempted) = MAX_RETRIES * Len(RPC_ENDPOINTS)
    /\ now - startTime >= CONFIRMATION_TIMEOUT_MS
    /\ pollCount > 0

\* the calls of an attempt, in the order of the code
StepOrder == << "connection", "key", "nonce", "gas", "send" >>

\* C20: the calls of an attempt are made in the order connection test, key
\* decryption, nonce fetch, gas estimate, submit, each one at most once and
\* only after the one before succeeded (the gas estimate may fail): the key
\* is read once per attempt at most, after the connection test of that
\* attempt succeeded, and a failed connection test is the only call of its
\* attempt.
C20_StepsInOrder ==
    /\ Len(steps) <= Len(StepOrder)
    /\ \A i \in 1..Len(steps) : steps[i].step = StepOrder[i]
    /\ \A i \in 1..(Len(steps) - 1) : steps[i].ok \/ steps[i].step = "gas"
    /\ (steps # << >> /\ ~ steps[1].ok) =>
           /\ Len(steps) = 1
           /\ ~ keyLoaded
           /\ pc \in { "attempt", "round_end", "failed" }
    /\ keyLoaded => (Len(steps) >= 2 /\ steps[1].ok /\ steps[2].ok)
    /\ pc = "key" => Len(steps) = 1
    /\ pc = "nonce" => Len(steps) = 2
    /\ pc = "gas" => Len(steps) = 3
    /\ pc = "send" => Len(steps) = 4
    /\ pc \in { "wait", "timed_out" } => (Len(steps) = 5 /\ steps[5].ok)

\* C20 witness: the connection test of the first attempt failed; control is
\* at the second candidate and the key has not been read in this run
C20_Witness ==
    /\ pc = "attempt"
    /\ rpcIdx = 2
    /\ Len(attempted) = 1
    /\ steps = << [ step |-> "connection", ok |-> FALSE ] >>
    /\ keyFailedAt = 0
    /\ ~ keyLoaded

\* C21: a request is built, and submitted, only with the nonce that the nonce
\* fetch of the same attempt returned from the endpoint of that attempt, the
\* endpoint the submit goes to; an attempt whose nonce fetch failed makes no
\* further call: no gas estimate, no request, no submit.
C21_NonceOfThisAttempt ==
    /\ txRequest # << >> =>
           /\ Len(steps) >= 3
           /\ steps[3].ok
           /\ txRequest[1].nonce = steps[3].answer.value
           /\ steps[3].endpoint = attempted[Len(attempted)]
    /\ Len(steps) = 5 =>
           /\ steps[5].endpoint = steps[3].endpoint
           /\ steps[5].endpoint = attempted[Len(attempted)]
    /\ (Len(steps) >= 3 /\ ~ steps[3].ok) =>
           /\ Len(steps) = 3
           /\ txRequest = << >>
           /\ pc \in { "attempt", "round_end", "failed" }

\* C21 witness: the submit of the first attempt failed; the second attempt,
\* on Ronin RPC, fetched the nonce 1 there and its submit, with that nonce,
\* was accepted
C21_Witness ==
    /\ pc = "wait"
    /\ attempted = << "dRPC", "Ronin RPC" >>
    /\ sendCalls = 2
    /\ steps[3].endpoint = "Ronin RPC"
    /\ steps[3].answer.value = 1
    /\ txRequest[1].nonce = 1

\* a step of the poller that is a tick without a receipt: the query came back
\* empty, progress was logged or not, and the poller slept
TickWithoutReceipt == pc = "wait" /\ pc' = "wait" /\ pollCount' = pollCount + 1

\* the time one tick takes: a receipt query and the sleep
TickMs == POLL_INTERVAL_MS + rpcLatency

\* C22 (as claimed): on every tick without a receipt on which 15 s or more
\* have passed since the last progress notification (or since the poller
\* started) a notification is emitted.
C22_ProgressAtFifteenSeconds ==
    [][ TickWithoutReceipt =>
           ((now + rpcLatency) - lastLog >= 15000 => lastLog' = now + rpcLatency) ]_vars

\* C22 (amended): on a tick without a receipt a notification is emitted
\* exactly when more than 15 s have passed since the last one (or since the
\* poller started), measured when the query has returned.  With ticks of
\* equal length the notifications are (15 s div tick) + 1 ticks apart: every
\* third tick when a tick takes more than 5 s and up to 7.5 s, every fourth
\* tick when it takes exactly 5 s.
C22_ProgressAfterFifteenSeconds ==
    /\ [][ TickWithoutReceipt =>
             lastLog' = IF (now + rpcLatency) - lastLog > 15000
                        THEN now + rpcLatency ELSE lastLog ]_vars
    /\ []( sentHashes # << >> =>
             \/ lastLog = startTime
             \/ /\ lastLog - startTime >=
                       rpcLatency + TickMs * (((15000 - rpcLatency) \div TickMs) + 1)
                /\ (lastLog - startTime
                       - (rpcLatency + TickMs * (((15000 - rpcLatency) \div TickMs) + 1)))
                     % (TickMs * ((15000 \div TickMs) + 1)) = 0 )

\* C22 witness: queries that take no time; 15 s after the start no
\* notification was emitted, the first one came after four sleeps, at 20 s
C22_Witness ==
    /\ rpcLatency = 0
    /\ pc = "wait"
    /\ pollSleeps = 5
    /\ lastLog = startTime + 20000
    /\ now = startTime + 25000

\* C23 (as claimed): at most one fire transaction of a run is mined, also
\* when a submit that reached the network was reported as failed.
C23_AtMostOneMined == chain.mined <= 1

\* every configured endpoint has been probed and has passed
AllProbesPassed ==
    /\ Len(probeOk) = Len(RPC_ENDPOINTS)
    /\ \A i \in 1..Len(probeOk) : probeOk[i]

\* what the rounds read and write, the candidates apart
roundVars == << attemptCount, rpcIdx, attemptLocals, tx, result, error, now,
                attempted, sleeps, sendCalls, sentHashes, keyFailedAt,
                passedKeyNonce, pollerVars, steps >>

====
